---- MODULE Spec2Model ----
(***************************************************************************)
(* A model of src/main.py: extract_text_blocks (the Sequencer: build the   *)
(* TextBlock list of one page and sort it into reading order), group_blocks*)
(* (the Segmenter: one pass over the sorted blocks with the three flags    *)
(* in_group2, in_group3, in_group4) and main, which calls the first and    *)
(* then the second.                                                        *)
(*                                                                         *)
(* A text is a sequence of one-character strings, so that strip(), lower() *)
(* and the substring test `kw in txt_clean` are computed, not assumed.     *)
(***************************************************************************)
EXTENDS Integers, Sequences, FiniteSets, TLC

\* ------------------------------------------------------------------ bounds

\* Longest page of the free-coordinate inputs (SeqInputs).
MaxSeqLen == 3
\* Longest page of the free-text inputs (SegInputs).
MaxBlocks == 4
\* Longest page of the two-keyword inputs (PriorityInputs).
MaxPriorityLen == 2
\* Longest page of the runs checked under fairness (FairSpec).
MaxFairLen == 3
\* Coordinates of the free-coordinate inputs: y0 in 0..MaxTop, x0 in 0..MaxLeft.
MaxTop == 1
MaxLeft == 1
\* Documents have 0..MaxPages pages; the requested page is 0..MaxPageIndex.
MaxPages == 1
MaxPageIndex == 1

\* ------------------------------------------------------------------- texts

KW_MARKER ==
    <<"r","e","s","t","r","i","c","t","e","d">>
KW_SECTION_A ==
    <<"p","r","o","g","r","a","m","m","e","/","p","r","o","j","e","c","t"," ",
      "s","t","a","t","u","s"," ","r","e","p","o","r","t">>
KW_SECTION_B ==
    <<"d","e","s","c","r","i","p","t","i","o","n">>
KW_SECTION_C ==
    <<"r","e","p","o","r","t"," ","p","a","r","a","m","e","t","e","r","s">>

TxtRestricted ==
    <<"R","E","S","T","R","I","C","T","E","D">>
TxtRestrictedRaw ==
    <<" ","R","E","S","T","R","I","C","T","E","D","\n">>
TxtStatusReport ==
    <<"P","r","o","g","r","a","m","m","e","/","P","r","o","j","e","c","t"," ",
      "S","t","a","t","u","s"," ","R","e","p","o","r","t">>
TxtDescription ==
    <<"D","e","s","c","r","i","p","t","i","o","n">>
TxtReportParameters ==
    <<"R","e","p","o","r","t"," ","P","a","r","a","m","e","t","e","r","s">>
TxtLineA ==
    <<"l","i","n","e"," ","A">>
TxtLineB ==
    <<"l","i","n","e"," ","B">>
TxtLineC ==
    <<"l","i","n","e"," ","C">>

\* Texts that hold two keywords.
TxtRestrictedDescription ==
    <<"R","e","s","t","r","i","c","t","e","d"," ","d","e","s","c","r","i",
      "p","t","i","o","n">>
TxtStatusReportDescription ==
    <<"P","r","o","g","r","a","m","m","e","/","P","r","o","j","e","c","t",
      " ","S","t","a","t","u","s"," ","R","e","p","o","r","t"," ","-"," ",
      "D","e","s","c","r","i","p","t","i","o","n">>
TxtStatusReportParameters ==
    <<"P","r","o","g","r","a","m","m","e","/","P","r","o","j","e","c","t",
      " ","S","t","a","t","u","s"," ","R","e","p","o","r","t"," ","P","a",
      "r","a","m","e","t","e","r","s">>
TxtDescriptionOfParameters ==
    <<"D","e","s","c","r","i","p","t","i","o","n"," ","o","f"," ","R","e",
      "p","o","r","t"," ","P","a","r","a","m","e","t","e","r","s">>

Whitespace ==
    {" ", "\n", "\t", "\r"}

\* The lower-case letter of each upper-case letter.
LowerOf ==
    [A |-> "a", B |-> "b", C |-> "c", D |-> "d", E |-> "e", F |-> "f",
     G |-> "g", H |-> "h", I |-> "i", J |-> "j", K |-> "k", L |-> "l",
     M |-> "m", N |-> "n", O |-> "o", P |-> "p", Q |-> "q", R |-> "r",
     S |-> "s", T |-> "t", U |-> "u", V |-> "v", W |-> "w", X |-> "x",
     Y |-> "y", Z |-> "z"]

\* str.lower(), one character.
LowerChar(c) ==
    IF c \in DOMAIN LowerOf THEN LowerOf[c] ELSE c

\* str.lower()
Lower(s) ==
    [k \in 1..Len(s) |-> LowerChar(s[k])]

RECURSIVE LStrip(_)
LStrip(s) ==
    IF s # << >> /\ Head(s) \in Whitespace THEN LStrip(Tail(s)) ELSE s

RECURSIVE RStrip(_)
RStrip(s) ==
    IF s # << >> /\ s[Len(s)] \in Whitespace
    THEN RStrip(SubSeq(s, 1, Len(s) - 1))
    ELSE s

\* str.strip(): the text without its leading and trailing whitespace.
Strip(s) ==
    RStrip(LStrip(s))

\* Python's `kw in txt`: kw is a contiguous substring of txt.
Contains(txt, kw) ==
    \E k \in 1..(Len(txt) - Len(kw) + 1) :
        \A j \in 1..Len(kw) : txt[k + j - 1] = kw[j]

\* txt_clean = blk.text.strip().lower()
TxtClean(blk) ==
    Lower(Strip(blk.text))

\* ------------------------------------------------------------- TextBlock

\* One element of page.get_text("blocks"): [x0, y0, x1, y1, text, block_no].
RawBlock(x0, y0, text, block_no) ==
    <<x0, y0, x0 + 1, y0 + 1, text, block_no>>

\* TextBlock.__init__ applied to the unpacked tuple b.
TextBlock(b) ==
    [x0 |-> b[1], y0 |-> b[2], x1 |-> b[3], y1 |-> b[4],
     text |-> b[5], block_no |-> b[6]]

\* blocks after the loop `for b in raw_blocks: blocks.append(TextBlock(...))`.
MakeBlocks(raw_blocks) ==
    [k \in 1..Len(raw_blocks) |-> TextBlock(raw_blocks[k])]

\* A slip in the key: (x0, y0) instead of (y0, x0).
KeyLessLeftFirst(a, b) ==
    \/ a.x0 < b.x0
    \/ a.x0 = b.x0 /\ a.y0 < b.y0

\* Python's tuple comparison (a.y0, a.x0) < (b.y0, b.x0) of the sort keys.
KeyLess(a, b) ==
    \/ a.y0 < b.y0
    \/ a.y0 = b.y0 /\ a.x0 < b.x0

\* An unstable sort: b goes before the elements with an equal key.
SortInsertBeforeEqual(s, b) ==
    LET later == {k \in 1..Len(s) : ~KeyLess(s[k], b)}
        at    == IF later = {} THEN Len(s) + 1
                 ELSE CHOOSE k \in later : \A j \in later : k <= j
    IN  SubSeq(s, 1, at - 1) \o <<b>> \o SubSeq(s, at, Len(s))

\* A sort that keeps one block per key.
SortInsertUniqueKey(s, b) ==
    LET later == {k \in 1..Len(s) : KeyLess(b, s[k])}
        at    == IF later = {} THEN Len(s) + 1
                 ELSE CHOOSE k \in later : \A j \in later : k <= j
    IN  IF \E k \in 1..Len(s) : ~KeyLess(b, s[k]) /\ ~KeyLess(s[k], b)
        THEN s
        ELSE SubSeq(s, 1, at - 1) \o <<b>> \o SubSeq(s, at, Len(s))

\* One insertion of the stable sort: b goes before the first element whose
\* key is greater than b's, so after every element with an equal key.
SortInsert(s, b) ==
    LET later == {k \in 1..Len(s) : KeyLess(b, s[k])}
        at    == IF later = {} THEN Len(s) + 1
                 ELSE CHOOSE k \in later : \A j \in later : k <= j
    IN  SubSeq(s, 1, at - 1) \o <<b>> \o SubSeq(s, at, Len(s))

RECURSIVE SortFrom(_, _, _)
SortFrom(sorted, s, k) ==
    IF k > Len(s) THEN sorted
    ELSE SortFrom(SortInsert(sorted, s[k]), s, k + 1)

\* The sort left out: the blocks stay in the order of the page.
SortBlocksNone(s) ==
    s

\* blocks.sort(key=lambda blk: (blk.y0, blk.x0)): list.sort is stable.
SortBlocks(s) ==
    SortFrom(<< >>, s, 1)

\* extract_text_blocks for a page in range: build the blocks, sort, return.
ExtractTextBlocks(raw_blocks) ==
    SortBlocks(MakeBlocks(raw_blocks))

\* ------------------------------------------------------------ group_blocks

\* A wrong initial flag: the pass starts with Section-A active.
GroupStartInSectionA ==
    [group1 |-> << >>, group2 |-> << >>, group3 |-> << >>, group4 |-> << >>,
     in_group2 |-> TRUE, in_group3 |-> FALSE, in_group4 |-> FALSE,
     dropped |-> << >>]

\* The locals of group_blocks at its first line of the loop.  dropped records
\* the blocks that reach the final `else: pass`.
GroupStart ==
    [group1 |-> << >>, group2 |-> << >>, group3 |-> << >>, group4 |-> << >>,
     in_group2 |-> FALSE, in_group3 |-> FALSE, in_group4 |-> FALSE,
     dropped |-> << >>]

IsMarker(blk) ==
    Contains(TxtClean(blk), KW_MARKER)
HasSectionA(blk) ==
    Contains(TxtClean(blk), KW_SECTION_A)
HasSectionB(blk) ==
    Contains(TxtClean(blk), KW_SECTION_B)
HasSectionC(blk) ==
    Contains(TxtClean(blk), KW_SECTION_C)

\* The first `continue` left out: a marker block falls through to the
\* follower dispatch as well.
GroupStepNoContinue(st, blk) ==
    IF IsMarker(blk)
    THEN LET m == [st EXCEPT !.group1 = Append(@, blk)]
         IN  IF st.in_group2 THEN [m EXCEPT !.group2 = Append(@, blk)]
             ELSE IF st.in_group3 THEN [m EXCEPT !.group3 = Append(@, blk)]
             ELSE IF st.in_group4 THEN [m EXCEPT !.group4 = Append(@, blk)]
             ELSE m
    ELSE IF HasSectionA(blk)
    THEN [st EXCEPT !.in_group2 = TRUE, !.in_group3 = FALSE,
                    !.in_group4 = FALSE, !.group2 = Append(@, blk)]
    ELSE IF HasSectionB(blk)
    THEN [st EXCEPT !.in_group2 = FALSE, !.in_group3 = TRUE,
                    !.in_group4 = FALSE, !.group3 = Append(@, blk)]
    ELSE IF HasSectionC(blk)
    THEN [st EXCEPT !.in_group2 = FALSE, !.in_group3 = FALSE,
                    !.in_group4 = TRUE, !.group4 = Append(@, blk)]
    ELSE IF st.in_group2
    THEN [st EXCEPT !.group2 = Append(@, blk)]
    ELSE IF st.in_group3
    THEN [st EXCEPT !.group3 = Append(@, blk)]
    ELSE IF st.in_group4
    THEN [st EXCEPT !.group4 = Append(@, blk)]
    ELSE [st EXCEPT !.dropped = Append(@, blk)]

\* The marker rule written like the heading rules: it clears the flags.
GroupStepMarkerResets(st, blk) ==
    IF IsMarker(blk)
    THEN [st EXCEPT !.in_group2 = FALSE, !.in_group3 = FALSE,
                    !.in_group4 = FALSE, !.group1 = Append(@, blk)]
    ELSE IF HasSectionA(blk)
    THEN [st EXCEPT !.in_group2 = TRUE, !.in_group3 = FALSE,
                    !.in_group4 = FALSE, !.group2 = Append(@, blk)]
    ELSE IF HasSectionB(blk)
    THEN [st EXCEPT !.in_group2 = FALSE, !.in_group3 = TRUE,
                    !.in_group4 = FALSE, !.group3 = Append(@, blk)]
    ELSE IF HasSectionC(blk)
    THEN [st EXCEPT !.in_group2 = FALSE, !.in_group3 = FALSE,
                    !.in_group4 = TRUE, !.group4 = Append(@, blk)]
    ELSE IF st.in_group2
    THEN [st EXCEPT !.group2 = Append(@, blk)]
    ELSE IF st.in_group3
    THEN [st EXCEPT !.group3 = Append(@, blk)]
    ELSE IF st.in_group4
    THEN [st EXCEPT !.group4 = Append(@, blk)]
    ELSE [st EXCEPT !.dropped = Append(@, blk)]

\* Headings as separators: a heading sets the flags and is not appended.
GroupStepExclusiveHeading(st, blk) ==
    IF IsMarker(blk)
    THEN [st EXCEPT !.group1 = Append(@, blk)]
    ELSE IF HasSectionA(blk)
    THEN [st EXCEPT !.in_group2 = TRUE, !.in_group3 = FALSE,
                    !.in_group4 = FALSE, !.dropped = Append(@, blk)]
    ELSE IF HasSectionB(blk)
    THEN [st EXCEPT !.in_group2 = FALSE, !.in_group3 = TRUE,
                    !.in_group4 = FALSE, !.dropped = Append(@, blk)]
    ELSE IF HasSectionC(blk)
    THEN [st EXCEPT !.in_group2 = FALSE, !.in_group3 = FALSE,
                    !.in_group4 = TRUE, !.dropped = Append(@, blk)]
    ELSE IF st.in_group2
    THEN [st EXCEPT !.group2 = Append(@, blk)]
    ELSE IF st.in_group3
    THEN [st EXCEPT !.group3 = Append(@, blk)]
    ELSE IF st.in_group4
    THEN [st EXCEPT !.group4 = Append(@, blk)]
    ELSE [st EXCEPT !.dropped = Append(@, blk)]

\* The alternative the comment of lines 116-117 mentions: a block met before
\* any heading defaults to group4.
GroupStepDefaultGroup4(st, blk) ==
    IF IsMarker(blk)
    THEN [st EXCEPT !.group1 = Append(@, blk)]
    ELSE IF HasSectionA(blk)
    THEN [st EXCEPT !.in_group2 = TRUE, !.in_group3 = FALSE,
                    !.in_group4 = FALSE, !.group2 = Append(@, blk)]
    ELSE IF HasSectionB(blk)
    THEN [st EXCEPT !.in_group2 = FALSE, !.in_group3 = TRUE,
                    !.in_group4 = FALSE, !.group3 = Append(@, blk)]
    ELSE IF HasSectionC(blk)
    THEN [st EXCEPT !.in_group2 = FALSE, !.in_group3 = FALSE,
                    !.in_group4 = TRUE, !.group4 = Append(@, blk)]
    ELSE IF st.in_group2
    THEN [st EXCEPT !.group2 = Append(@, blk)]
    ELSE IF st.in_group3
    THEN [st EXCEPT !.group3 = Append(@, blk)]
    ELSE IF st.in_group4
    THEN [st EXCEPT !.group4 = Append(@, blk)]
    ELSE [st EXCEPT !.group4 = Append(@, blk)]

\* The heading tests in another order: "description" before the Section-A
\* phrase.
GroupStepDescriptionFirst(st, blk) ==
    IF IsMarker(blk)
    THEN [st EXCEPT !.group1 = Append(@, blk)]
    ELSE IF HasSectionB(blk)
    THEN [st EXCEPT !.in_group2 = FALSE, !.in_group3 = TRUE,
                    !.in_group4 = FALSE, !.group3 = Append(@, blk)]
    ELSE IF HasSectionA(blk)
    THEN [st EXCEPT !.in_group2 = TRUE, !.in_group3 = FALSE,
                    !.in_group4 = FALSE, !.group2 = Append(@, blk)]
    ELSE IF HasSectionC(blk)
    THEN [st EXCEPT !.in_group2 = FALSE, !.in_group3 = FALSE,
                    !.in_group4 = TRUE, !.group4 = Append(@, blk)]
    ELSE IF st.in_group2
    THEN [st EXCEPT !.group2 = Append(@, blk)]
    ELSE IF st.in_group3
    THEN [st EXCEPT !.group3 = Append(@, blk)]
    ELSE IF st.in_group4
    THEN [st EXCEPT !.group4 = Append(@, blk)]
    ELSE [st EXCEPT !.dropped = Append(@, blk)]

\* A copy-and-paste slip in the follower dispatch: under in_group3 the block
\* is appended to group4.
GroupStepFollowerSlip(st, blk) ==
    IF IsMarker(blk)
    THEN [st EXCEPT !.group1 = Append(@, blk)]
    ELSE IF HasSectionA(blk)
    THEN [st EXCEPT !.in_group2 = TRUE, !.in_group3 = FALSE,
                    !.in_group4 = FALSE, !.group2 = Append(@, blk)]
    ELSE IF HasSectionB(blk)
    THEN [st EXCEPT !.in_group2 = FALSE, !.in_group3 = TRUE,
                    !.in_group4 = FALSE, !.group3 = Append(@, blk)]
    ELSE IF HasSectionC(blk)
    THEN [st EXCEPT !.in_group2 = FALSE, !.in_group3 = FALSE,
                    !.in_group4 = TRUE, !.group4 = Append(@, blk)]
    ELSE IF st.in_group2
    THEN [st EXCEPT !.group2 = Append(@, blk)]
    ELSE IF st.in_group3
    THEN [st EXCEPT !.group4 = Append(@, blk)]
    ELSE IF st.in_group4
    THEN [st EXCEPT !.group4 = Append(@, blk)]
    ELSE [st EXCEPT !.dropped = Append(@, blk)]

\* Sections closed for good: a heading of a section that already has
\* members is appended to it and does not make it active again.
GroupStepNoReentry(st, blk) ==
    IF IsMarker(blk)
    THEN [st EXCEPT !.group1 = Append(@, blk)]
    ELSE IF HasSectionA(blk)
    THEN IF st.group2 # << >>
         THEN [st EXCEPT !.group2 = Append(@, blk)]
         ELSE [st EXCEPT !.in_group2 = TRUE, !.in_group3 = FALSE,
                         !.in_group4 = FALSE, !.group2 = Append(@, blk)]
    ELSE IF HasSectionB(blk)
    THEN IF st.group3 # << >>
         THEN [st EXCEPT !.group3 = Append(@, blk)]
         ELSE [st EXCEPT !.in_group2 = FALSE, !.in_group3 = TRUE,
                         !.in_group4 = FALSE, !.group3 = Append(@, blk)]
    ELSE IF HasSectionC(blk)
    THEN IF st.group4 # << >>
         THEN [st EXCEPT !.group4 = Append(@, blk)]
         ELSE [st EXCEPT !.in_group2 = FALSE, !.in_group3 = FALSE,
                         !.in_group4 = TRUE, !.group4 = Append(@, blk)]
    ELSE IF st.in_group2
    THEN [st EXCEPT !.group2 = Append(@, blk)]
    ELSE IF st.in_group3
    THEN [st EXCEPT !.group3 = Append(@, blk)]
    ELSE IF st.in_group4
    THEN [st EXCEPT !.group4 = Append(@, blk)]
    ELSE [st EXCEPT !.dropped = Append(@, blk)]

\* Followers put at the front of their group (insert(0, blk)).
GroupStepPrepend(st, blk) ==
    IF IsMarker(blk)
    THEN [st EXCEPT !.group1 = Append(@, blk)]
    ELSE IF HasSectionA(blk)
    THEN [st EXCEPT !.in_group2 = TRUE, !.in_group3 = FALSE,
                    !.in_group4 = FALSE, !.group2 = Append(@, blk)]
    ELSE IF HasSectionB(blk)
    THEN [st EXCEPT !.in_group2 = FALSE, !.in_group3 = TRUE,
                    !.in_group4 = FALSE, !.group3 = Append(@, blk)]
    ELSE IF HasSectionC(blk)
    THEN [st EXCEPT !.in_group2 = FALSE, !.in_group3 = FALSE,
                    !.in_group4 = TRUE, !.group4 = Append(@, blk)]
    ELSE IF st.in_group2
    THEN [st EXCEPT !.group2 = <<blk>> \o @]
    ELSE IF st.in_group3
    THEN [st EXCEPT !.group3 = <<blk>> \o @]
    ELSE IF st.in_group4
    THEN [st EXCEPT !.group4 = <<blk>> \o @]
    ELSE [st EXCEPT !.dropped = Append(@, blk)]

\* A marker rule that depends on the state: it applies only while no
\* section is active, and a marker block met later is a follower.
GroupStepMarkerWhenIdle(st, blk) ==
    IF IsMarker(blk) /\ ~st.in_group2 /\ ~st.in_group3 /\ ~st.in_group4
    THEN [st EXCEPT !.group1 = Append(@, blk)]
    ELSE IF HasSectionA(blk)
    THEN [st EXCEPT !.in_group2 = TRUE, !.in_group3 = FALSE,
                    !.in_group4 = FALSE, !.group2 = Append(@, blk)]
    ELSE IF HasSectionB(blk)
    THEN [st EXCEPT !.in_group2 = FALSE, !.in_group3 = TRUE,
                    !.in_group4 = FALSE, !.group3 = Append(@, blk)]
    ELSE IF HasSectionC(blk)
    THEN [st EXCEPT !.in_group2 = FALSE, !.in_group3 = FALSE,
                    !.in_group4 = TRUE, !.group4 = Append(@, blk)]
    ELSE IF st.in_group2
    THEN [st EXCEPT !.group2 = Append(@, blk)]
    ELSE IF st.in_group3
    THEN [st EXCEPT !.group3 = Append(@, blk)]
    ELSE IF st.in_group4
    THEN [st EXCEPT !.group4 = Append(@, blk)]
    ELSE [st EXCEPT !.dropped = Append(@, blk)]

\* Heading rules that set their own flag and leave the other two alone.
GroupStepNoClear(st, blk) ==
    IF IsMarker(blk)
    THEN [st EXCEPT !.group1 = Append(@, blk)]
    ELSE IF HasSectionA(blk)
    THEN [st EXCEPT !.in_group2 = TRUE, !.group2 = Append(@, blk)]
    ELSE IF HasSectionB(blk)
    THEN [st EXCEPT !.in_group3 = TRUE, !.group3 = Append(@, blk)]
    ELSE IF HasSectionC(blk)
    THEN [st EXCEPT !.in_group4 = TRUE, !.group4 = Append(@, blk)]
    ELSE IF st.in_group2
    THEN [st EXCEPT !.group2 = Append(@, blk)]
    ELSE IF st.in_group3
    THEN [st EXCEPT !.group3 = Append(@, blk)]
    ELSE IF st.in_group4
    THEN [st EXCEPT !.group4 = Append(@, blk)]
    ELSE [st EXCEPT !.dropped = Append(@, blk)]

\* A typo in the Section-C rule: in_group4 = False.
GroupStepSectionCTypo(st, blk) ==
    IF IsMarker(blk)
    THEN [st EXCEPT !.group1 = Append(@, blk)]
    ELSE IF HasSectionA(blk)
    THEN [st EXCEPT !.in_group2 = TRUE, !.in_group3 = FALSE,
                    !.in_group4 = FALSE, !.group2 = Append(@, blk)]
    ELSE IF HasSectionB(blk)
    THEN [st EXCEPT !.in_group2 = FALSE, !.in_group3 = TRUE,
                    !.in_group4 = FALSE, !.group3 = Append(@, blk)]
    ELSE IF HasSectionC(blk)
    THEN [st EXCEPT !.in_group2 = FALSE, !.in_group3 = FALSE,
                    !.in_group4 = FALSE, !.group4 = Append(@, blk)]
    ELSE IF st.in_group2
    THEN [st EXCEPT !.group2 = Append(@, blk)]
    ELSE IF st.in_group3
    THEN [st EXCEPT !.group3 = Append(@, blk)]
    ELSE IF st.in_group4
    THEN [st EXCEPT !.group4 = Append(@, blk)]
    ELSE [st EXCEPT !.dropped = Append(@, blk)]

\* One iteration of `for blk in blocks:` on the locals st.
GroupStep(st, blk) ==
    LET txt_clean == TxtClean(blk)
    IN  IF Contains(txt_clean, KW_MARKER)
        THEN [st EXCEPT !.group1 = Append(@, blk)]
        ELSE IF Contains(txt_clean, KW_SECTION_A)
        THEN [st EXCEPT !.in_group2 = TRUE, !.in_group3 = FALSE,
                        !.in_group4 = FALSE, !.group2 = Append(@, blk)]
        ELSE IF Contains(txt_clean, KW_SECTION_B)
        THEN [st EXCEPT !.in_group2 = FALSE, !.in_group3 = TRUE,
                        !.in_group4 = FALSE, !.group3 = Append(@, blk)]
        ELSE IF Contains(txt_clean, KW_SECTION_C)
        THEN [st EXCEPT !.in_group2 = FALSE, !.in_group3 = FALSE,
                        !.in_group4 = TRUE, !.group4 = Append(@, blk)]
        ELSE IF st.in_group2
        THEN [st EXCEPT !.group2 = Append(@, blk)]
        ELSE IF st.in_group3
        THEN [st EXCEPT !.group3 = Append(@, blk)]
        ELSE IF st.in_group4
        THEN [st EXCEPT !.group4 = Append(@, blk)]
        ELSE [st EXCEPT !.dropped = Append(@, blk)]

RECURSIVE GroupFrom(_, _, _)
GroupFrom(st, bs, k) ==
    IF k > Len(bs) THEN st
    ELSE GroupFrom(GroupStep(st, bs[k]), bs, k + 1)

\* The groups returned in another order.
GroupResultSwapped(st) ==
    <<st.group2, st.group1, st.group3, st.group4>>

\* return [group1, group2, group3, group4]
GroupResult(st) ==
    <<st.group1, st.group2, st.group3, st.group4>>

\* group_blocks(blocks) as a function of its argument.
GroupBlocks(bs) ==
    GroupResult(GroupFrom(GroupStart, bs, 1))

\* ------------------------------------------------------------------ inputs

RECURSIVE Perms(_)
Perms(S) ==
    IF S = {} THEN {<< >>}
    ELSE UNION {{<<x>> \o p : p \in Perms(S \ {x})} : x \in S}

\* Pages of up to MaxSeqLen blocks at any coordinates, block_no in page order.
SeqTexts ==
    {TxtStatusReport}
SeqInputs ==
    UNION {{[k \in 1..n |-> RawBlock(f[k][1], f[k][2], f[k][3], k - 1)] :
              f \in [1..n -> (0..MaxLeft) \X (0..MaxTop) \X SeqTexts]} :
           n \in 0..MaxSeqLen}

\* Pages of up to MaxBlocks blocks of any text, one block per line.
SegTexts ==
    {TxtRestrictedRaw, TxtStatusReport, TxtDescription, TxtReportParameters,
     TxtLineA}
SegInputs ==
    UNION {{[k \in 1..n |-> RawBlock(0, k - 1, f[k], k - 1)] :
              f \in [1..n -> SegTexts]} :
           n \in 0..MaxBlocks}

\* Pages of up to MaxPriorityLen blocks whose texts hold two keywords, or
\* one section heading that makes a section active ahead of them.
PriorityTexts ==
    {TxtRestrictedDescription, TxtStatusReportDescription,
     TxtStatusReportParameters, TxtDescriptionOfParameters,
     TxtStatusReport, TxtReportParameters}
PriorityInputs ==
    UNION {{[k \in 1..n |-> RawBlock(0, k - 1, f[k], k - 1)] :
              f \in [1..n -> PriorityTexts]} :
           n \in 0..MaxPriorityLen}

\* The seven fragments of the status-report page, in every input order.
ScenarioBlocks ==
    {RawBlock(0, 0, TxtRestricted, 0), RawBlock(0, 10, TxtStatusReport, 1),
     RawBlock(0, 20, TxtLineA, 2), RawBlock(0, 30, TxtDescription, 3),
     RawBlock(0, 40, TxtLineB, 4), RawBlock(0, 50, TxtReportParameters, 5),
     RawBlock(0, 60, TxtLineC, 6)}
ScenarioInputs ==
    Perms(ScenarioBlocks)

Inputs ==
    SeqInputs \cup SegInputs \cup PriorityInputs \cup ScenarioInputs

\* ------------------------------------------------------------------- state

VARIABLES
    doc_len,      \* len(doc): the pages of the opened document
    page_index,   \* the page requested of extract_text_blocks
    page,         \* what page.get_text("blocks") returns for that page
    pc,           \* "main" | "extracted" | "loop" | "returned" | "raised"
    error,        \* the exception that left main, or "none"
    blocks,       \* main's blocks, the argument of group_blocks
    i,            \* 1-based position of the for loop of group_blocks
    group1, group2, group3, group4,
    in_group2, in_group3, in_group4,
    dropped,      \* the blocks that reached `else: pass`
    result        \* the list group_blocks returned

vars ==
    <<doc_len, page_index, page, pc, error, blocks, i, group1, group2,
      group3, group4, in_group2, in_group3, in_group4, dropped, result>>

\* The locals of group_blocks as one record.
Locals ==
    [group1 |-> group1, group2 |-> group2, group3 |-> group3,
     group4 |-> group4, in_group2 |-> in_group2, in_group3 |-> in_group3,
     in_group4 |-> in_group4, dropped |-> dropped]

SetLocals(st) ==
    /\ group1' = st.group1
    /\ group2' = st.group2
    /\ group3' = st.group3
    /\ group4' = st.group4
    /\ in_group2' = st.in_group2
    /\ in_group3' = st.in_group3
    /\ in_group4' = st.in_group4
    /\ dropped' = st.dropped

\* The page of main's own call (page 0 of a one-page document) is any input;
\* the other requests that are in range read a page of at most one block.
Init ==
    /\ doc_len \in 0..MaxPages
    /\ page_index \in 0..MaxPageIndex
    /\ page \in Inputs
    /\ \/ doc_len = 1 /\ page_index = 0
       \/ Len(page) = 0
       \/ page_index < doc_len /\ Len(page) <= 1
    /\ pc = "main"
    /\ error = "none"
    /\ blocks = << >>
    /\ i = 0
    /\ group1 = << >> /\ group2 = << >> /\ group3 = << >> /\ group4 = << >>
    /\ in_group2 = FALSE /\ in_group3 = FALSE /\ in_group4 = FALSE
    /\ dropped = << >>
    /\ result = << >>

\* An off-by-one test: `page_index > len(doc)`.
PageOutOfRangeStrict(idx, len) ==
    idx > len

\* The test of line 22: `page_index >= len(doc)`.
PageOutOfRange(idx, len) ==
    idx >= len

\* extract_text_blocks, lines 22-23: the page is out of range, ValueError
\* is raised and, main catching nothing, ends the program.
ExtractRaise ==
    /\ pc = "main"
    /\ PageOutOfRange(page_index, doc_len)
    /\ pc' = "raised"
    /\ error' = "ValueError"
    /\ UNCHANGED <<doc_len, page_index, page, blocks, i, group1, group2,
                   group3, group4, in_group2, in_group3, in_group4, dropped,
                   result>>

\* extract_text_blocks, lines 24-34: the page is in range.
ExtractReturn ==
    /\ pc = "main"
    /\ ~PageOutOfRange(page_index, doc_len)
    /\ blocks' = ExtractTextBlocks(page)
    /\ pc' = "extracted"
    /\ UNCHANGED <<doc_len, page_index, page, error, i, group1, group2,
                   group3, group4, in_group2, in_group3, in_group4, dropped,
                   result>>

\* main calls group_blocks(blocks): lines 59-68.
GroupEnter ==
    /\ pc = "extracted"
    /\ SetLocals(GroupStart)
    /\ i' = 1
    /\ pc' = "loop"
    /\ UNCHANGED <<doc_len, page_index, page, error, blocks, result>>

\* A loop that consumes two blocks per iteration and handles the first.
GroupIterateSkip ==
    /\ pc = "loop"
    /\ i <= Len(blocks)
    /\ SetLocals(GroupStep(Locals, blocks[i]))
    /\ i' = i + 2
    /\ UNCHANGED <<doc_len, page_index, page, pc, error, blocks, result>>

\* One iteration of the for loop, lines 70-118.
GroupIterate ==
    /\ pc = "loop"
    /\ i <= Len(blocks)
    /\ SetLocals(GroupStep(Locals, blocks[i]))
    /\ i' = i + 1
    /\ UNCHANGED <<doc_len, page_index, page, pc, error, blocks, result>>

\* The loop is exhausted: line 120.
GroupReturn ==
    /\ pc = "loop"
    /\ i > Len(blocks)
    /\ result' = GroupResult(Locals)
    /\ pc' = "returned"
    /\ UNCHANGED <<doc_len, page_index, page, error, blocks, i, group1,
                   group2, group3, group4, in_group2, in_group3, in_group4,
                   dropped>>

Next ==
    \/ ExtractRaise
    \/ ExtractReturn
    \/ GroupEnter
    \/ GroupIterate
    \/ GroupReturn

Spec ==
    Init /\ [][Next]_vars

\* The runs on the pages of up to MaxFairLen blocks of the free-text
\* inputs, under fairness: main runs in one thread and nothing suspends it,
\* so a step that can be taken is taken.
FairInit ==
    /\ Init
    /\ page \in SegInputs
    /\ Len(page) <= MaxFairLen

FairSpec ==
    FairInit /\ [][Next]_vars /\ WF_vars(Next)

\* ------------------------------------------------------ claim vocabulary

\* How often x occurs in the sequence s.
Count(s, x) ==
    Cardinality({k \in 1..Len(s) : s[k] = x})

\* The group_blocks call is under way or has returned.
InGroupBlocks ==
    pc \in {"loop", "returned"}

\* extract_text_blocks has returned blocks to main.
Extracted ==
    pc \in {"extracted", "loop", "returned"}

\* The loop is about to process blocks[i].
AtBlock ==
    pc = "loop" /\ i <= Len(blocks)

\* No section is active: activeGroup = None.
NoSection ==
    ~in_group2 /\ ~in_group3 /\ ~in_group4

KeywordFree(blk) ==
    ~IsMarker(blk) /\ ~HasSectionA(blk) /\ ~HasSectionB(blk) /\ ~HasSectionC(blk)

AllGrouped ==
    group1 \o group2 \o group3 \o group4

\* ------------------------------------------------------------------ C1

\* C1 (state part): every block processed so far occurs exactly once in the
\* four groups and the dropped blocks together, nothing else occurs there,
\* and the sizes of the four groups plus the number of dropped blocks is the
\* number of blocks processed: the whole input once group_blocks returned.
PartitionInv ==
    InGroupBlocks =>
        /\ \A k \in 1..(i - 1) : Count(AllGrouped \o dropped, blocks[k]) = 1
        /\ Len(group1) + Len(group2) + Len(group3) + Len(group4)
             + Len(dropped) = i - 1
        /\ \A k \in 1..Len(dropped) : KeywordFree(dropped[k])
        /\ pc = "returned" =>
             /\ i - 1 = Len(blocks)
             /\ result = <<group1, group2, group3, group4>>

\* C1 (step part): a block is dropped exactly when it is keyword-free and is
\* processed while no section is active.
DropRule ==
    AtBlock =>
        (dropped' # dropped <=> (KeywordFree(blocks[i]) /\ NoSection))

\* C1: partition invariant of group_blocks: the four groups are pairwise
\* disjoint and duplicate-free, each input fragment is in exactly one group
\* or dropped, the sizes add up to the input size, and the dropped fragments
\* are exactly the keyword-free ones processed while no section was active.
C1_Partition ==
    []PartitionInv /\ [][DropRule]_vars

\* C1 witness: a finished pass with a marker, a grouped and a dropped block.
C1_Witness ==
    /\ pc = "returned"
    /\ Len(dropped) > 0
    /\ Len(result[1]) > 0
    /\ Len(result[2]) > 1

\* ------------------------------------------------------------------ C2

\* C2 (step part): processing a marker block leaves the three flags as they
\* are, whatever they are.
MarkerKeepsSection ==
    (AtBlock /\ IsMarker(blocks[i])) =>
        /\ in_group2' = in_group2
        /\ in_group3' = in_group3
        /\ in_group4' = in_group4

\* The page [Section-A heading, marker fragment, keyword-free follower].
MarkerScenario ==
    /\ Len(blocks) = 3
    /\ blocks[1].text = TxtStatusReport
    /\ blocks[2].text = TxtRestrictedRaw
    /\ blocks[3].text = TxtLineA

\* C2: marker independence: a marker fragment never changes the active
\* section, and for [Section-A heading, marker, follower] the follower lands
\* in Section-A and not in Marker.
C2_MarkerIndependence ==
    /\ [][MarkerKeepsSection]_vars
    /\ []((pc = "returned" /\ MarkerScenario) =>
            /\ result[1] = <<blocks[2]>>
            /\ result[2] = <<blocks[1], blocks[3]>>)

\* C2 witness: the scenario has been grouped.
C2_Witness ==
    pc = "returned" /\ MarkerScenario /\ in_group2

\* ------------------------------------------------------------------ C3

\* C3: ordering correctness: the blocks returned by extract_text_blocks are
\* sorted by y0 ascending and, for equal y0, by x0 ascending; any fragment
\* of the page with a smaller top comes before any with a larger top.
C3_Ordering ==
    Extracted =>
        /\ \A p, q \in 1..Len(blocks) :
             p < q => \/ blocks[p].y0 < blocks[q].y0
                      \/ /\ blocks[p].y0 = blocks[q].y0
                         /\ blocks[p].x0 <= blocks[q].x0
        /\ \A k, l \in 1..Len(page) :
             page[k][2] < page[l][2] =>
               \E p, q \in 1..Len(blocks) :
                  /\ p < q
                  /\ blocks[p] = TextBlock(page[k])
                  /\ blocks[q] = TextBlock(page[l])

\* C3 witness: a page given bottom-up and right-to-left has been sorted.
C3_Witness ==
    /\ pc = "extracted"
    /\ Len(page) = 3
    /\ page[1][2] > page[2][2]
    /\ page[2][2] = page[3][2] /\ page[2][1] > page[3][1]
    /\ blocks = <<TextBlock(page[3]), TextBlock(page[2]), TextBlock(page[1])>>

\* ------------------------------------------------------------------ C4

\* Two fragments of the page with the same (top, left).
Tied(k, l) ==
    page[k][1] = page[l][1] /\ page[k][2] = page[l][2]

\* C4: tie stability: two fragments with equal top and equal left keep, in
\* the sorted blocks, the relative order they had in the page.
C4_TieStability ==
    Extracted =>
        \A k, l \in 1..Len(page) :
            (k < l /\ Tied(k, l)) =>
              \A p, q \in 1..Len(blocks) :
                 (blocks[p] = TextBlock(page[k]) /\ blocks[q] = TextBlock(page[l]))
                   => p < q

\* C4 witness: a tied pair was moved by the sort and kept its order.
C4_Witness ==
    /\ pc = "extracted"
    /\ Len(page) = 3
    /\ Tied(1, 3)
    /\ page[2][2] < page[1][2]
    /\ blocks = <<TextBlock(page[2]), TextBlock(page[1]), TextBlock(page[3])>>

\* ------------------------------------------------------------------ C5

\* C5: the Sequencer is a pure reordering: the sorted blocks are a
\* permutation of the page's fragments, each with its six attributes as the
\* page gave them, and an empty page gives no blocks.
C5_Permutation ==
    Extracted =>
        /\ Len(blocks) = Len(page)
        /\ \A k \in 1..Len(page) :
             LET b == page[k]
                 blk == [x0 |-> b[1], y0 |-> b[2], x1 |-> b[3], y1 |-> b[4],
                         text |-> b[5], block_no |-> b[6]]
             IN  Count(blocks, blk) = Count(page, b)
        /\ Len(page) = 0 => blocks = << >>

\* C5 witness: a page with two fragments at the same place and a third one
\* above them has been sorted, all three kept.
C5_Witness ==
    /\ pc = "extracted"
    /\ Len(page) = 3
    /\ Tied(1, 2)
    /\ page[3][2] < page[1][2]
    /\ Len(blocks) = 3
    /\ blocks[1] = TextBlock(page[3])

\* ------------------------------------------------------------------ C6

\* The section rule that handles blk: 2, 3 or 4 for the Section-A, Section-B
\* or Section-C heading rule, 0 for a marker or a keyword-free block.
HeadingRule(blk) ==
    IF IsMarker(blk) THEN 0
    ELSE IF HasSectionA(blk) THEN 2
    ELSE IF HasSectionB(blk) THEN 3
    ELSE IF HasSectionC(blk) THEN 4
    ELSE 0

GroupNo(g) ==
    <<group1, group2, group3, group4>>[g]

\* C6 as stated: every processed heading fragment is in its target group and
\* is the first element of that group.
C6_EveryHeadingFirst ==
    InGroupBlocks =>
        \A k \in 1..(i - 1) :
            HeadingRule(blocks[k]) # 0 =>
              LET g == GroupNo(HeadingRule(blocks[k]))
              IN  Count(g, blocks[k]) = 1 /\ g[1] = blocks[k]

\* C6 amended: heading inclusion: every processed heading fragment has been
\* appended to its target group, and it is the first element of that group
\* when no earlier fragment is a heading of the same section.
C6_HeadingInclusion ==
    InGroupBlocks =>
        \A k \in 1..(i - 1) :
            LET rule == HeadingRule(blocks[k])
            IN  rule # 0 =>
                  /\ Count(GroupNo(rule), blocks[k]) = 1
                  /\ \/ GroupNo(rule)[1] = blocks[k]
                     \/ \E j \in 1..(k - 1) : HeadingRule(blocks[j]) = rule

\* C6 witness: a section heading repeated after another section started;
\* the first is the head of its group, the second a later member of it.
C6_Witness ==
    /\ pc = "returned"
    /\ Len(blocks) = 4
    /\ HeadingRule(blocks[1]) = 2
    /\ HeadingRule(blocks[2]) = 3
    /\ HeadingRule(blocks[3]) = 2
    /\ group2[1] = blocks[1]
    /\ group2[2] = blocks[3]

\* ------------------------------------------------------------------ C7

\* C7 (step part): processing a keyword-free block while no section is
\* active leaves the four groups and the three flags as they are.
OrphanStep ==
    (AtBlock /\ KeywordFree(blocks[i]) /\ NoSection) =>
        /\ <<group1, group2, group3, group4>>' = <<group1, group2, group3, group4>>
        /\ <<in_group2, in_group3, in_group4>>' = <<in_group2, in_group3, in_group4>>

\* C7: orphan drop: a keyword-free fragment processed while no section is
\* active changes neither the groups nor the active section, and is in none
\* of the four groups afterwards.
C7_OrphanDrop ==
    /\ [][OrphanStep]_vars
    /\ [](InGroupBlocks =>
            \A k \in 1..Len(dropped) : Count(AllGrouped, dropped[k]) = 0)

\* C7 witness: an orphan ahead of the first heading was dropped, and the
\* blocks after the heading were grouped.
C7_Witness ==
    /\ pc = "returned"
    /\ Len(blocks) = 3
    /\ KeywordFree(blocks[1])
    /\ dropped = <<blocks[1]>>
    /\ result[2] = <<blocks[2], blocks[3]>>

\* ------------------------------------------------------------------ C8

\* No two fragments of the page have the same (top, left).
DistinctKeys ==
    \A k, l \in 1..Len(page) : k # l => ~Tied(k, l)

\* The fragments of the page as a set: what every permutation of the page
\* has in common.
PageSet ==
    {TextBlock(page[k]) : k \in 1..Len(page)}

\* The blocks of S, whose keys are pairwise distinct, by rank of their key.
ByKey(S) ==
    [p \in 1..Cardinality(S) |->
        CHOOSE b \in S :
            Cardinality({c \in S : \/ c.y0 < b.y0
                                   \/ c.y0 = b.y0 /\ c.x0 < b.x0}) = p - 1]

IsScenario ==
    Len(page) = 7 /\ {page[k] : k \in 1..7} = ScenarioBlocks

ScenarioExpected ==
    <<  <<TextBlock(RawBlock(0, 0, TxtRestricted, 0))>>,
        <<TextBlock(RawBlock(0, 10, TxtStatusReport, 1)),
          TextBlock(RawBlock(0, 20, TxtLineA, 2))>>,
        <<TextBlock(RawBlock(0, 30, TxtDescription, 3)),
          TextBlock(RawBlock(0, 40, TxtLineB, 4))>>,
        <<TextBlock(RawBlock(0, 50, TxtReportParameters, 5)),
          TextBlock(RawBlock(0, 60, TxtLineC, 6))>>  >>

\* C8: input-order independence: for a page whose (top, left) keys are
\* pairwise distinct the four groups returned are determined by the set of
\* fragments alone, so they are the same for every permutation of the page;
\* every order of the seven-fragment page gives the expected four groups.
C8_OrderIndependence ==
    (pc = "returned" /\ DistinctKeys) =>
        /\ result = GroupBlocks(ByKey(PageSet))
        /\ IsScenario => result = ScenarioExpected

\* C8 witness: the seven fragments given bottom-up have been grouped.
C8_Witness ==
    /\ pc = "returned"
    /\ IsScenario
    /\ \A k \in 1..6 : page[k][2] > page[k + 1][2]
    /\ result = ScenarioExpected

\* ------------------------------------------------------------------ C9

\* C9: page-range error: when page_index >= len(doc) the call never returns
\* blocks, ends in the raised ValueError, and group_blocks is never entered;
\* when the page is in range no error is raised.
C9_PageRange ==
    /\ page_index >= doc_len =>
         /\ pc \in {"main", "raised"}
         /\ blocks = << >> /\ i = 0 /\ result = << >>
         /\ AllGrouped \o dropped = << >>
    /\ pc = "raised" => (error = "ValueError" /\ page_index >= doc_len)
    /\ page_index < doc_len => (pc # "raised" /\ error = "none")
    /\ pc # "raised" => error = "none"

\* C9 witness: the first page index past the end of a one-page document.
C9_Witness ==
    pc = "raised" /\ doc_len = 1 /\ page_index = 1

\* ----------------------------------------------------------------- C10

NoGroups ==
    << << >>, << >>, << >>, << >> >>

\* C10: total output shape: group_blocks raises nothing, its loop is always
\* at a block of the input or at the return (the guard of GroupIterate or of
\* GroupReturn holds), and it returns exactly four groups in the order [Marker,
\* Section-A, Section-B, Section-C]: the first holds the marker blocks, the
\* others no marker block and, when not empty, start with a block carrying
\* their own heading phrase; an empty input gives four empty groups.
C10_OutputShape ==
    /\ InGroupBlocks => error = "none"
    /\ pc = "loop" => (i \in 1..Len(blocks) \/ i = Len(blocks) + 1)
    /\ pc = "returned" =>
         /\ Len(result) = 4
         /\ result[1] = SelectSeq(blocks, IsMarker)
         /\ \A g \in 2..4 : \A k \in 1..Len(result[g]) : ~IsMarker(result[g][k])
         /\ result[2] # << >> => HasSectionA(result[2][1])
         /\ result[3] # << >> => HasSectionB(result[3][1])
         /\ result[4] # << >> => HasSectionC(result[4][1])
         /\ Len(blocks) = 0 => result = NoGroups

\* C10 witness: the empty page has been grouped.
C10_Witness ==
    pc = "returned" /\ Len(page) = 0 /\ result = NoGroups

\* ----------------------------------------------------------------- C11

Groups ==
    <<group1, group2, group3, group4>>

Flags ==
    <<in_group2, in_group3, in_group4>>

\* The step appends blk to group g and to no other group.
AppendsOnlyTo(g, blk) ==
    /\ Groups'[g] = Append(Groups[g], blk)
    /\ \A h \in 1..4 : h # g => Groups'[h] = Groups[h]

\* How many of the four keywords the normalized text of blk holds.
KeywordCount(blk) ==
    Cardinality({n \in 1..4 :
        \/ n = 1 /\ IsMarker(blk)
        \/ n = 2 /\ HasSectionA(blk)
        \/ n = 3 /\ HasSectionB(blk)
        \/ n = 4 /\ HasSectionC(blk)})

\* C11 (step): the earliest matching rule alone handles the block.
FirstMatchStep ==
    AtBlock =>
        LET blk == blocks[i]
        IN  /\ IsMarker(blk) =>
                 AppendsOnlyTo(1, blk) /\ Flags' = Flags
            /\ (~IsMarker(blk) /\ HasSectionA(blk)) =>
                 AppendsOnlyTo(2, blk) /\ Flags' = <<TRUE, FALSE, FALSE>>
            /\ (~IsMarker(blk) /\ ~HasSectionA(blk) /\ HasSectionB(blk)) =>
                 AppendsOnlyTo(3, blk) /\ Flags' = <<FALSE, TRUE, FALSE>>
            /\ (~IsMarker(blk) /\ ~HasSectionA(blk) /\ ~HasSectionB(blk)
                  /\ HasSectionC(blk)) =>
                 AppendsOnlyTo(4, blk) /\ Flags' = <<FALSE, FALSE, TRUE>>

\* C11: first-match-wins priority: a fragment holding several keywords is
\* handled by the earliest matching rule only, in the order marker,
\* Section-A, Section-B, Section-C: it is appended to that rule's group alone
\* and the active section is set as that rule prescribes.
C11_FirstMatchWins ==
    [][FirstMatchStep]_vars

\* C11 witness: after a Section-C heading, a text with "restricted" and
\* "description" went to Marker alone and left Section-C active.
C11_Witness ==
    /\ pc = "returned"
    /\ Len(blocks) = 2
    /\ blocks[1].text = TxtReportParameters
    /\ blocks[2].text = TxtRestrictedDescription
    /\ KeywordCount(blocks[2]) = 2
    /\ result = << <<blocks[2]>>, << >>, << >>, <<blocks[1]>> >>
    /\ Flags = <<FALSE, FALSE, TRUE>>

\* ----------------------------------------------------------------- C12

\* The rule (2, 3, 4) of the most recent section heading among bs[1..k], or
\* 0 when there is none; marker blocks and followers are passed over.
RECURSIVE LastHeadingRule(_, _)
LastHeadingRule(bs, k) ==
    IF k = 0 THEN 0
    ELSE LET rule == HeadingRule(bs[k])
         IN  IF rule # 0 THEN rule ELSE LastHeadingRule(bs, k - 1)

\* C12 (step): a keyword-free block processed while section G is active is
\* appended to G alone and G stays active.
FollowerStep ==
    (AtBlock /\ KeywordFree(blocks[i])) =>
        /\ Flags = <<TRUE, FALSE, FALSE>> =>
             AppendsOnlyTo(2, blocks[i]) /\ Flags' = Flags
        /\ Flags = <<FALSE, TRUE, FALSE>> =>
             AppendsOnlyTo(3, blocks[i]) /\ Flags' = Flags
        /\ Flags = <<FALSE, FALSE, TRUE>> =>
             AppendsOnlyTo(4, blocks[i]) /\ Flags' = Flags

\* C12 (state): every processed keyword-free block that has a section
\* heading before it is in the group of the most recent such heading, once,
\* and in no other group.
FollowerPlacement ==
    InGroupBlocks =>
        \A k \in 1..(i - 1) :
            KeywordFree(blocks[k]) =>
              LET rule == LastHeadingRule(blocks, k - 1)
              IN  rule # 0 =>
                    \A g \in 1..4 :
                       Count(Groups[g], blocks[k]) = (IF g = rule THEN 1 ELSE 0)

\* C12: follower rule: a keyword-free fragment processed while section G is
\* active is appended to G and to no other group and G stays active; so it
\* lands in the group of the most recent section heading before it, marker
\* fragments in between notwithstanding.
C12_FollowerRule ==
    [][FollowerStep]_vars /\ []FollowerPlacement

\* C12 witness: [Section-B heading, marker, follower]: the follower is in
\* Section-B, behind its heading.
C12_Witness ==
    /\ pc = "returned"
    /\ Len(blocks) = 3
    /\ HeadingRule(blocks[1]) = 3
    /\ IsMarker(blocks[2])
    /\ KeywordFree(blocks[3])
    /\ result[3] = <<blocks[1], blocks[3]>>
    /\ Flags = <<FALSE, TRUE, FALSE>>

\* ----------------------------------------------------------------- C13

\* The flags when the section of heading rule r (2, 3, 4) is active.
FlagsOf(r) ==
    <<r = 2, r = 3, r = 4>>

\* C13 (step): a heading of a section that already has members, met while
\* another section is active, makes its section active again and is
\* appended behind the section's earlier members.
ReentryStep ==
    AtBlock =>
        LET rule == HeadingRule(blocks[i])
        IN  (rule # 0 /\ Groups[rule] # << >> /\ Flags # FlagsOf(rule)) =>
               /\ Flags' = FlagsOf(rule)
               /\ AppendsOnlyTo(rule, blocks[i])

\* The page [Section-A heading, Section-B heading, Section-A heading,
\* keyword-free follower].
ReentryScenario ==
    /\ Len(blocks) = 4
    /\ HeadingRule(blocks[1]) = 2
    /\ HeadingRule(blocks[2]) = 3
    /\ HeadingRule(blocks[3]) = 2
    /\ KeywordFree(blocks[4])

\* C13: re-entrancy: a section heading that reappears after another section
\* became active sets the active section back, is appended to its section
\* after the earlier members, and the followers after it go to that section.
C13_Reentrancy ==
    /\ [][ReentryStep]_vars
    /\ []((pc = "returned" /\ ReentryScenario) =>
            /\ result[2] = <<blocks[1], blocks[3], blocks[4]>>
            /\ result[3] = <<blocks[2]>>
            /\ Flags = FlagsOf(2))

\* C13 witness: the page with the repeated Section-A heading has been
\* grouped, the follower behind the repeated heading.
C13_Witness ==
    /\ pc = "returned"
    /\ ReentryScenario
    /\ group2 = <<blocks[1], blocks[3], blocks[4]>>
    /\ group3 = <<blocks[2]>>

\* ----------------------------------------------------------------- C14

\* g is a subsequence of bs[1..n]: its members are blocks of bs at strictly
\* increasing positions.
IsSubsequence(g, bs, n) ==
    /\ \A a \in 1..Len(g) : \E p \in 1..n : bs[p] = g[a]
    /\ \A a, b \in 1..Len(g) :
         a < b => \E p, q \in 1..n : p < q /\ bs[p] = g[a] /\ bs[q] = g[b]

\* C14 (step): a group changes only by the current block being appended at
\* its end.
AppendOnlyStep ==
    \A g \in 1..4 :
        \/ Groups'[g] = Groups[g]
        \/ AtBlock /\ Groups'[g] = Append(Groups[g], blocks[i])
        \/ pc = "extracted" /\ Groups'[g] = << >>

\* C14: within-group order: at every point of the pass and in the result
\* each of the four groups is a subsequence of the blocks processed so far,
\* and groups only grow by appending at the end.
C14_GroupOrder ==
    /\ [](InGroupBlocks =>
            /\ \A g \in 1..4 : IsSubsequence(Groups[g], blocks, i - 1)
            /\ pc = "returned" =>
                 \A g \in 1..4 : IsSubsequence(result[g], blocks, Len(blocks)))
    /\ [][AppendOnlyStep]_vars

\* C14 witness: a group of three members taken from four blocks, in the
\* order of the input.
C14_Witness ==
    /\ pc = "returned"
    /\ Len(blocks) = 4
    /\ result[2] = <<blocks[1], blocks[3], blocks[4]>>
    /\ result[1] = <<blocks[2]>>

\* ----------------------------------------------------------------- C15

\* C15: marker membership: the Marker group holds exactly the processed
\* blocks whose normalized text contains "restricted", in input order,
\* whatever section was active when they were processed, and no such block
\* is in a section group or among the dropped blocks.
C15_MarkerMembership ==
    InGroupBlocks =>
        /\ group1 = SelectSeq(SubSeq(blocks, 1, i - 1), IsMarker)
        /\ \A k \in 1..(i - 1) :
             IsMarker(blocks[k]) =>
               Count(group2 \o group3 \o group4 \o dropped, blocks[k]) = 0

\* C15 witness: a marker block met while Section-C was active is in Marker
\* and Section-C holds its heading only.
C15_Witness ==
    /\ pc = "returned"
    /\ Len(blocks) = 2
    /\ blocks[1].text = TxtReportParameters
    /\ blocks[2].text = TxtRestrictedRaw
    /\ in_group4
    /\ result = << <<blocks[2]>>, << >>, << >>, <<blocks[1]>> >>

\* ----------------------------------------------------------------- C16

\* C16 (step): an iteration handles blocks[i], places it once in a group or
\* among the dropped blocks, and moves to the next block; the position
\* never goes back and the blocks are not changed during the pass.
ForwardStep ==
    /\ AtBlock =>
         /\ i' = i + 1
         /\ Len(AllGrouped' \o dropped') = Len(AllGrouped \o dropped) + 1
         /\ Count(AllGrouped' \o dropped', blocks[i]) = 1
    /\ InGroupBlocks => (i' >= i /\ blocks' = blocks)

\* C16: single forward pass and termination: group_blocks handles each of
\* the n blocks exactly once, in sequence order, never goes back, and always
\* returns, after exactly n iterations.
C16_SinglePass ==
    /\ [][ForwardStep]_vars
    /\ [](pc = "loop" => i \in 1..(Len(blocks) + 1))
    /\ [](pc = "returned" =>
            /\ i = Len(blocks) + 1
            /\ Len(AllGrouped \o dropped) = Len(blocks))
    /\ (pc = "extracted" ~> pc = "returned")

\* C16 witness: the pass over a three-block page has returned after three
\* iterations, each block placed once.
C16_Witness ==
    /\ pc = "returned"
    /\ Len(blocks) = 3
    /\ i = 4
    /\ Len(group1) = 1 /\ Len(group3) = 1 /\ Len(dropped) = 1

\* ----------------------------------------------------------------- C17

\* activeGroup of the single-state machine: the section of the most recent
\* section heading processed (2, 3, 4), or 0 for None.
ActiveGroup ==
    IF InGroupBlocks THEN LastHeadingRule(blocks, i - 1) ELSE 0

\* C17 (state): at most one flag is true and the three flags encode
\* activeGroup.
FlagsEncodeActive ==
    /\ Cardinality({n \in 1..3 : Flags[n]}) <= 1
    /\ Flags = FlagsOf(ActiveGroup)

\* C17 (step): the follower dispatch appends to the group named by
\* activeGroup.
DispatchAgrees ==
    (AtBlock /\ KeywordFree(blocks[i]) /\ ActiveGroup # 0) =>
        AppendsOnlyTo(ActiveGroup, blocks[i])

\* C17: the flag encoding refines the single active-section state: in every
\* reachable state at most one of in_group2, in_group3, in_group4 is true,
\* the triple corresponds to activeGroup, and the if/elif follower dispatch
\* agrees with appending to the group activeGroup names.
C17_FlagEncoding ==
    []FlagsEncodeActive /\ [][DispatchAgrees]_vars

\* C17 witness: after a Section-A and then a Section-B heading only
\* in_group3 is true, and the follower went to Section-B.
C17_Witness ==
    /\ pc = "returned"
    /\ Len(blocks) = 3
    /\ HeadingRule(blocks[1]) = 2
    /\ HeadingRule(blocks[2]) = 3
    /\ KeywordFree(blocks[3])
    /\ Flags = <<FALSE, TRUE, FALSE>>
    /\ group3 = <<blocks[2], blocks[3]>>

\* ----------------------------------------------------------------- C18

\* C18 (step): within a pass an active section never becomes None.
StaysActive ==
    (InGroupBlocks /\ ~NoSection) => ~NoSection'

\* C18 (state): the dropped blocks all come before the first section
\* heading, and every block processed after it is in exactly one group.
DropsBeforeFirstHeading ==
    InGroupBlocks =>
        \A k \in 1..(i - 1) :
            IF LastHeadingRule(blocks, k - 1) = 0
            THEN Count(AllGrouped \o dropped, blocks[k]) = 1
            ELSE Count(AllGrouped, blocks[k]) = 1 /\ Count(dropped, blocks[k]) = 0

\* C18: no return to the inactive state: once a section heading has been
\* processed activeGroup is never None again in the pass, every fragment
\* processed after the first heading is placed in exactly one group, and
\* dropped fragments occur only before the first section heading.
C18_NoReturnToNone ==
    /\ [][StaysActive]_vars
    /\ [](InGroupBlocks => (ActiveGroup # 0 => ~NoSection))
    /\ []DropsBeforeFirstHeading

\* C18 witness: an orphan was dropped, then a Section-C heading came, and
\* the two keyword-free blocks behind it were grouped.
C18_Witness ==
    /\ pc = "returned"
    /\ Len(blocks) = 4
    /\ dropped = <<blocks[1]>>
    /\ HeadingRule(blocks[2]) = 4
    /\ group4 = <<blocks[2], blocks[3], blocks[4]>>
    /\ KeywordFree(blocks[4])

\* ----------------------------------------------------------------- C19

\* C19: groups start with a heading: in every reachable state each
\* non-empty section group has as first member a block handled by that
\* group's heading rule, so carrying its heading phrase, and a section group
\* is non-empty exactly when such a block is among the blocks processed.
C19_GroupsStartWithHeading ==
    InGroupBlocks =>
        /\ group2 # << >> => (HeadingRule(group2[1]) = 2 /\ HasSectionA(group2[1]))
        /\ group3 # << >> => (HeadingRule(group3[1]) = 3 /\ HasSectionB(group3[1]))
        /\ group4 # << >> => (HeadingRule(group4[1]) = 4 /\ HasSectionC(group4[1]))
        /\ \A g \in 2..4 :
             Groups[g] # << >> <=>
               \E k \in 1..(i - 1) : HeadingRule(blocks[k]) = g

\* C19 witness: orphans ahead of a Section-B heading: Section-B starts with
\* the heading, the other section groups are empty.
C19_Witness ==
    /\ pc = "returned"
    /\ Len(blocks) = 4
    /\ Len(dropped) = 2
    /\ HeadingRule(blocks[3]) = 3
    /\ result = << << >>, << >>, <<blocks[3], blocks[4]>>, << >> >>

====
